---- MODULE Spec2Model ----
(***************************************************************************)
(* Model of the risk aggregation pipeline of the MDRS backend:             *)
(*   backend/risk_engine.py   RiskScoringEngine.calculate_risk             *)
(*   backend/gemini_client.py GeminiClient (is_available, generate,        *)
(*                            analyze_media_risk, _extract_risk_factors)   *)
(*                                                                         *)
(* Numbers.  Python floats are modelled as exact decimal fixed point:      *)
(*   confidence   in units of 1/ConfScale          (0.0428  -> 428)        *)
(*   weight       in units of 1/WeightScale        (0.35    -> 35)         *)
(*   score points in units of 1/PointScale point   (10.5    -> 105000)     *)
(* so that confidence * weight * 100 is the integer product c * w.         *)
(* round(x) and round(x, 2) are Python's round-half-to-even.               *)
(*                                                                         *)
(* Text.  A string is a sequence of one-character strings; "\n" is the     *)
(* line separator.                                                         *)
(***************************************************************************)
EXTENDS Integers, Sequences, FiniteSets, TLC

\* ------------------------------------------------------------------ units
ConfScale == 10000
WeightScale == 100
PointScale == 10000
CentiScale == 100

\* ------------------------------------------------------------------ bounds
MaxSignals == 3

\* ------------------------------------------------------ numeric primitives
\* Python round(): nearest, ties to even.  n >= 0 in units of 1/d.
RoundHalfEven(n, d) ==
    LET q == n \div d
        r == n % d
    IN  IF 2 * r < d THEN q
        ELSE IF 2 * r > d THEN q + 1
        ELSE IF q % 2 = 0 THEN q ELSE q + 1

Min(a, b) == IF a <= b THEN a ELSE b

\* round(total_score): fixed-point points -> whole points
RoundPoints(total) == RoundHalfEven(total, PointScale)

\* round(x, 2) of a confidence: result in hundredths
RoundConfidence2(c) == RoundHalfEven(c, ConfScale \div CentiScale)

\* round(x, 2) of a contribution: result in hundredths of a point
RoundContribution2(p) == RoundHalfEven(p, PointScale \div CentiScale)

\* ------------------------------------------------------------ weight table
DefaultWeight == 10

WEIGHTS ==
    [ image |-> [ manipulation_artifacts |-> 35,
                  metadata_inconsistency |-> 20,
                  compression_anomaly |-> 15,
                  lighting_inconsistency |-> 15,
                  noise_pattern |-> 15 ],
      video |-> [ facial_warping |-> 30,
                  lighting_shadow_anomaly |-> 20,
                  temporal_inconsistency |-> 20,
                  audio_visual_mismatch |-> 15,
                  compression_artifact |-> 15 ],
      audio |-> [ spectral_anomaly |-> 30,
                  phoneme_inconsistency |-> 25,
                  voice_synthesis_artifact |-> 25,
                  background_mismatch |-> 20 ],
      text  |-> [ sensational_language |-> 25,
                  stylometric_drift |-> 20,
                  emotional_manipulation |-> 20,
                  factual_inconsistency |-> 20,
                  source_credibility |-> 15 ] ]

THRESHOLDS == [ low |-> 30, medium |-> 60, high |-> 100 ]

\* self.WEIGHTS.get(modality, {})
ModalityWeights(modality) ==
    IF modality \in DOMAIN WEIGHTS THEN WEIGHTS[modality] ELSE << >>

\* (a lookup that ignores the call's modality)
WeightForAnyTable(modality, signal_type) ==
    IF \E m \in DOMAIN WEIGHTS : signal_type \in DOMAIN WEIGHTS[m]
    THEN LET m == CHOOSE m \in DOMAIN WEIGHTS : signal_type \in DOMAIN WEIGHTS[m]
         IN  WEIGHTS[m][signal_type]
    ELSE DefaultWeight

\* weights.get(signal_type, 0.1)
WeightFor(modality, signal_type) ==
    LET weights == ModalityWeights(modality)
    IN  IF signal_type \in DOMAIN weights THEN weights[signal_type]
        ELSE DefaultWeight

\* contribution = confidence * weight * 100
Contribution(confidence, weight) ==
    confidence * weight * ((100 * PointScale) \div (ConfScale * WeightScale))

\* ------------------------------------------------------- input universe
\* signal.get('evidence', {}) : the key may be absent from a signal
EmptyMap == << >>

Get(mapping, key, default) ==
    IF key \in DOMAIN mapping THEN mapping[key] ELSE default

\* for signal in signals: ... (lines 82-97), one iteration
ContributionEntry(modality, signal) ==
    LET weight == WeightFor(modality, signal.type)
        contribution == Contribution(signal.confidence, weight)
    IN  [ signal |-> signal.type,
          description |-> signal.description,
          confidence |-> RoundConfidence2(signal.confidence),
          weight |-> weight,
          contribution |-> RoundContribution2(contribution),
          evidence |-> Get(signal, "evidence", EmptyMap) ]

\* (assignment in place of +=)
AccumulateAssign(total_score, contribution) == contribution

\* total_score += contribution, one iteration

Accumulate(total_score, contribution) == total_score + contribution

\* the loop of lines 79-97: total_score over the whole list
RECURSIVE TotalScore(_, _)
TotalScore(modality, signals) ==
    IF signals = << >> THEN 0
    ELSE LET n == Len(signals)
             last == signals[n]
         IN  Accumulate(TotalScore(modality, SubSeq(signals, 1, n - 1)),
                        Contribution(last.confidence,
                                     WeightFor(modality, last.type)))

\* (the cap left out)
CapScoreUncapped(total_score) == RoundPoints(total_score)

\* risk_score = min(100, round(total_score))

CapScore(total_score) == Min(100, RoundPoints(total_score))

\* _determine_risk_level
_determine_risk_level(score) ==
    IF score < THRESHOLDS.low THEN "Low"
    ELSE IF score < THRESHOLDS.medium THEN "Medium"
    ELSE "High"

\* (an ascending sort reversed: equal values come out latest first)
SortedAscendingReversed(contributions) ==
    LET n == Len(contributions)
        Before(j, i) ==
            \/ contributions[j].contribution > contributions[i].contribution
            \/ /\ contributions[j].contribution = contributions[i].contribution
               /\ j > i
        Rank(i) == 1 + Cardinality({ j \in 1..n : Before(j, i) })
    IN  [ k \in 1..n |-> contributions[CHOOSE i \in 1..n : Rank(i) = k] ]

\* sorted(contributions, key=contribution, reverse=True): stable, descending.
\* Position of entry i = number of entries that sort before it.
SortedDescending(contributions) ==
    LET n == Len(contributions)
        Before(j, i) ==
            \/ contributions[j].contribution > contributions[i].contribution
            \/ /\ contributions[j].contribution = contributions[i].contribution
               /\ j < i
        Rank(i) == 1 + Cardinality({ j \in 1..n : Before(j, i) })
    IN  [ k \in 1..n |-> contributions[CHOOSE i \in 1..n : Rank(i) = k] ]

Take(seq, k) == SubSeq(seq, 1, Min(k, Len(seq)))

\* (the list sorted in place by the explanation step)
SignalContributionsSorted(modality, signals) ==
    SortedDescending(
        [ i \in 1..Len(signals) |-> ContributionEntry(modality, signals[i]) ])

\* the loop of lines 79-97: signal_contributions
SignalContributions(modality, signals) ==
    [ i \in 1..Len(signals) |-> ContributionEntry(modality, signals[i]) ]

\* f"{x:.1f}" of a contribution already rounded to hundredths: tenths
FormatOneDecimal(centi) == RoundHalfEven(centi, 10)

\* f"{x:.0%}" of a confidence in hundredths: whole percent
FormatPercent(centi) == RoundHalfEven(centi * 100, CentiScale)

\* _generate_explanation: the text, kept as its variable parts
_generate_explanation(modality, contributions, score) ==
    IF contributions = << >>
    THEN [ kind |-> "none", modality |-> modality ]
    ELSE LET top_signals == Take(SortedDescending(contributions), 3)
         IN  [ kind |-> "summary",
               score |-> score,
               count |-> Len(contributions),
               top |-> [ i \in 1..Len(top_signals) |->
                           [ rank |-> i,
                             signal |-> top_signals[i].signal,
                             description |-> top_signals[i].description,
                             confidence |->
                                 FormatPercent(top_signals[i].confidence),
                             contribution |->
                                 FormatOneDecimal(top_signals[i].contribution) ] ] ]

\* _generate_recommendation: recommendations[risk_level]
_generate_recommendation(risk_level, modality) ==
    LET recommendations ==
          [ Low |-> [ action |-> "Proceed with Caution",
                      priority |-> "Low",
                      suggested_steps |-> 3,
                      cross_check |-> "",
                      human_review_required |-> FALSE ],
            Medium |-> [ action |-> "Human Verification Advised",
                         priority |-> "Medium",
                         suggested_steps |-> 4,
                         cross_check |-> modality,
                         human_review_required |-> TRUE ],
            High |-> [ action |-> "Escalation Recommended",
                       priority |-> "High",
                       suggested_steps |-> 5,
                       cross_check |-> "",
                       human_review_required |-> TRUE ] ]
    IN  recommendations[risk_level]

NoneValue == "None"

\* _generate_low_risk_response
_generate_low_risk_response(modality) ==
    [ risk_score |-> 0,
      risk_level |-> "Low",
      modality |-> modality,
      signals_detected |-> 0,
      signal_breakdown |-> << >>,
      explanation |-> [ kind |-> "no_signals", modality |-> modality ],
      recommendation |-> [ action |-> "Proceed with Standard Verification",
                           priority |-> "Low",
                           suggested_steps |-> 3,
                           cross_check |-> "",
                           human_review_required |-> FALSE ],
      disclaimer |-> "cannot detect all forms of manipulation",
      timestamp |-> NoneValue,
      source |-> NoneValue ]

\* ------------------------------------------------------------------- text
Digits == { "0", "1", "2", "3", "4", "5", "6", "7", "8", "9" }
BulletChar == "bullet"
Whitespace == { " ", "\t", "\r", "\n" }
NL == "\n"

\* str.split('\n')
RECURSIVE Split(_)
Split(text) ==
    IF \A i \in 1..Len(text) : text[i] # NL THEN << text >>
    ELSE LET k == CHOOSE i \in 1..Len(text) :
                      text[i] = NL /\ \A j \in 1..(i - 1) : text[j] # NL
         IN  << SubSeq(text, 1, k - 1) >>
                 \o Split(SubSeq(text, k + 1, Len(text)))

\* str.lstrip(chars)
RECURSIVE LStrip(_, _)
LStrip(line, chars) ==
    IF line # << >> /\ Head(line) \in chars THEN LStrip(Tail(line), chars)
    ELSE line

\* str.rstrip(chars)
RECURSIVE RStrip(_, _)
RStrip(line, chars) ==
    IF line # << >> /\ line[Len(line)] \in chars
    THEN RStrip(SubSeq(line, 1, Len(line) - 1), chars)
    ELSE line

\* str.strip()
Strip(line) == RStrip(LStrip(line, Whitespace), Whitespace)

\* line[0].isdigit() or line.startswith('-') / '*' / bullet
StartsLikeItem(line) ==
    /\ line # << >>
    /\ \/ line[1] \in Digits
       \/ line[1] = "-"
       \/ line[1] = "*"
       \/ line[1] = BulletChar

\* line.lstrip('0123456789.-*<bullet> ').strip()
Cleaned(line) ==
    Strip(LStrip(line, Digits \cup { ".", "-", "*", BulletChar, " " }))

MinFactorLen == 10
MaxClientFactors == 4
MaxAdditional == 3

\* (a 10-character text accepted)
MeaningfulFromTen(cleaned) == Len(cleaned) >= MinFactorLen

\* if len(cleaned) > 10
Meaningful(cleaned) == Len(cleaned) > MinFactorLen

RECURSIVE FactorsOfLines(_)
FactorsOfLines(lines) ==
    IF lines = << >> THEN << >>
    ELSE LET line == Strip(Head(lines))
             rest == FactorsOfLines(Tail(lines))
         IN  IF StartsLikeItem(line) /\ Meaningful(Cleaned(line))
             THEN << Cleaned(line) >> \o rest
             ELSE rest

\* GeminiClient._extract_risk_factors
_extract_risk_factors(gemini_response) ==
    Take(FactorsOfLines(Split(gemini_response)), MaxClientFactors)

\* ------------------------------------------------------------ JSON values
\* a decoded JSON value: str / num / null / list / dict
JStr(chars) == [ kind |-> "str", chars |-> chars ]
JNum(n) == [ kind |-> "num", n |-> n ]
JNull == [ kind |-> "null" ]
JList(n) == [ kind |-> "list", n |-> n ]
JDict(fields) == [ kind |-> "dict", fields |-> fields ]

\* Python truthiness of a decoded value
Truthy(v) ==
    CASE v.kind = "str" -> v.chars # << >>
      [] v.kind = "num" -> v.n # 0
      [] v.kind = "null" -> FALSE
      [] v.kind = "list" -> v.n # 0
      [] v.kind = "dict" -> DOMAIN v.fields # {}

\* repr() of a str inside a container: quoted, newlines escaped
RECURSIVE Escaped(_)
Escaped(chars) ==
    IF chars = << >> THEN << >>
    ELSE (IF Head(chars) = NL THEN << "\\", "n" >> ELSE << Head(chars) >>)
             \o Escaped(Tail(chars))

ReprOf(v) ==
    CASE v.kind = "str" -> << "'" >> \o Escaped(v.chars) \o << "'" >>
      [] v.kind = "num" ->
           << << "0", "1", "2", "3", "4", "5", "6", "7", "8", "9" >>[v.n + 1] >>
      [] v.kind = "null" -> << "N", "o", "n", "e" >>
      [] OTHER -> << "[", "]" >>

\* str(result)
StrOf(v) ==
    CASE v.kind = "str" -> v.chars
      [] v.kind = "dict" ->
           LET Item(key, tag) ==
                   IF key \in DOMAIN v.fields
                   THEN << tag, ":" >> \o ReprOf(v.fields[key]) ELSE << >>
           IN  << "{" >> \o Item("text", "t") \o Item("response", "r")
                   \o Item("error", "e") \o << "}" >>
      [] OTHER -> ReprOf(v)

\* result.get(key): None when the key is absent
DictGet(v, key) == Get(v.fields, key, JNull)

\* a or b
Or(a, b) == IF Truthy(a) THEN a ELSE b

\* ----------------------------------------------------------- the client
ExceptionClasses ==
    { "TimeoutException", "ConnectError", "JSONDecodeError", "AttributeError" }

\* (a handler that names the transport errors only)
CaughtOnlyTransportErrors(exc) == exc \in { "TimeoutException", "ConnectError" }

\* except Exception: which raised classes the handler catches
CaughtByExceptException(exc) == exc \in ExceptionClasses

\* GeminiClient.is_available, given what GET /health does
is_available(base_url, health) ==
    IF base_url = "" THEN FALSE
    ELSE IF health = "exception" THEN FALSE
    ELSE health = "200"

\* what generate() returns after the POST completed with `outcome`:
\* None, or a value (not necessarily a str)
GenerateReturn(outcome) ==
    IF outcome.kind = "exception" THEN JNull
    ELSE IF outcome.status # 200 THEN JNull
    ELSE IF outcome.body.kind = "invalid" THEN JNull
    ELSE IF outcome.body.kind = "dict"
         THEN Or(DictGet(outcome.body, "text"),
                 Or(DictGet(outcome.body, "response"),
                    JStr(StrOf(outcome.body))))
         ELSE JStr(StrOf(outcome.body))

\* does generate() print "Gemini API error"
GenerateLogs(outcome) ==
    \/ outcome.kind = "exception"
    \/ /\ outcome.kind = "response"
       /\ outcome.status = 200
       /\ outcome.body.kind = "invalid"

\* analyze_media_risk, lines 109-119, given generate()'s return value
AnalyzeReturn(response) ==
    IF ~Truthy(response) THEN [ kind |-> "none" ]
    ELSE IF response.kind # "str"
         THEN [ kind |-> "raise", exc |-> "AttributeError" ]
         ELSE [ kind |-> "analysis",
                gemini_analysis |-> response.chars,
                gemini_available |-> TRUE,
                additional_context |-> _extract_risk_factors(response.chars) ]

\* f"{confidence:.0%}" of an unrounded confidence
PromptPercent(confidence) == RoundHalfEven(confidence * 100, ConfScale)

MaxPromptSignals == 5

\* (every signal summarised, without the [:5])
PromptAllSignals(modality, signals, metadata) ==
    [ modality |-> modality,
      signal_summary |->
          [ i \in 1..Len(signals) |->
              [ type |-> signals[i].type,
                description |-> signals[i].description,
                confidence |-> PromptPercent(signals[i].confidence) ] ],
      source |-> Get(metadata, "source", "Unknown"),
      context |-> Get(metadata, "context", "No context provided") ]

\* the prompt of analyze_media_risk, lines 85-107, as its variable parts
Prompt(modality, signals, metadata) ==
    LET top == Take(signals, MaxPromptSignals)
    IN  [ modality |-> modality,
          signal_summary |->
              [ i \in 1..Len(top) |->
                  [ type |-> top[i].type,
                    description |-> top[i].description,
                    confidence |-> PromptPercent(top[i].confidence) ] ],
          source |-> Get(metadata, "source", "Unknown"),
          context |-> Get(metadata, "context", "No context provided") ]

\* --------------------------------------------------------- input universe
Modalities == { "image", "video", "hologram" }

Sig(type, confidence, description) ==
    [ type |-> type, confidence |-> confidence, description |-> description,
      evidence |-> [ count |-> 1 ] ]

SignalUniverse ==
    { Sig("manipulation_artifacts", 10000, "ela"),
      Sig("compression_anomaly", 10000, "jpeg"),
      Sig("noise_pattern", 6000, "noise"),
      Sig("manipulation_artifacts", 428, "faint"),
      Sig("compression_anomaly", 1000, "block"),
      Sig("facial_warping", 6000, "warp"),
      [ type |-> "custom_signal", confidence |-> 0, description |-> "custom" ] }

RECURSIVE SeqsUpTo(_, _)
SeqsUpTo(S, n) ==
    IF n = 0 THEN { << >> }
    ELSE LET shorter == SeqsUpTo(S, n - 1)
         IN  shorter \cup { Append(q, x) : q \in shorter, x \in S }

SignalLists == SeqsUpTo(SignalUniverse, MaxSignals)

\* metadata: None, or a mapping with some of source / timestamp / context
MetaNone == [ is_none |-> TRUE ]

Metadatas ==
    { MetaNone,
      [ source |-> "feed" ],
      [ source |-> "wire", timestamp |-> "t1", context |-> "ctx" ] }

\* `metadata or {}`, `... if metadata else None`
MetaTruthy(metadata) == metadata # MetaNone /\ DOMAIN metadata # {}

MetaOrEmpty(metadata) == IF MetaTruthy(metadata) THEN metadata ELSE EmptyMap

\* metadata.get(key) if metadata else None
MetaEcho(metadata, key) ==
    IF MetaTruthy(metadata) THEN Get(metadata, key, NoneValue) ELSE NoneValue

\* response texts of the augmentation service
Factor(d) == << "r", "i", "s", "k", " ", "f", "a", "c", "t", "o", "r", " ", d >>
ShortItem == << "s", "h", "o", "r", "t", " ", "i", "t", "e", "m" >>
Prose == << "R", "i", "s", "k", ":", " ", "H", "i", "g", "h" >>

TextNoFactors == Prose \o << NL, "-", " " >> \o ShortItem
TextOneFactor == Prose \o << NL, "1", ".", " " >> \o Factor("a") \o << " ", "\r" >>
TextThreeFactors ==
    << "1", ".", " " >> \o Factor("a") \o << NL, " ", "-", " " >> \o Factor("b")
        \o << NL, "*", " " >> \o ShortItem
        \o << NL, BulletChar, " " >> \o Factor("c")
TextFiveFactors ==
    << "1", ".", " " >> \o Factor("a") \o << NL, "2", ".", " " >> \o Factor("b")
        \o << NL, "3", ".", " " >> \o Factor("c")
        \o << NL, "4", ".", " " >> \o Factor("d")
        \o << NL, "5", ".", " " >> \o Factor("e")

Bodies ==
    { [ kind |-> "invalid" ],
      JDict([ text |-> JStr(<< >>) ]),
      JDict([ text |-> JNum(5) ]),
      JDict([ error |-> JStr(TextOneFactor) ]),
      JDict([ text |-> JStr(TextNoFactors) ]),
      JDict([ text |-> JStr(TextOneFactor) ]),
      JDict([ response |-> JStr(TextThreeFactors) ]),
      JDict([ text |-> JStr(TextFiveFactors) ]),
      JStr(TextOneFactor),
      JList(2) }

PostOutcomes ==
    { [ kind |-> "exception", exc |-> e ] :
          e \in { "TimeoutException", "ConnectError" } }
    \cup { [ kind |-> "response", status |-> 503, body |-> [ kind |-> "invalid" ] ] }
    \cup { [ kind |-> "response", status |-> 200, body |-> b ] : b \in Bodies }

HealthOutcomes == { "200", "503", "exception" }

BaseUrls == { "", "https://gemini" }

\* ------------------------------------------------------------------ state
VARIABLES
    base_url,              \* GeminiClient.base_url (from the environment)
    tables,                \* the WEIGHTS and THRESHOLDS class attributes
    pc,                    \* position of the calculate_risk call
    modality, signals, metadata,                  \* arguments of the call
    total_score, signal_contributions,            \* locals of the call
    risk_score, risk_level, explanation, recommendation,
    gemini_analysis, gemini_signals,
    result,                \* the returned assessment
    raised,                \* an exception left calculate_risk
    probes,                \* what each is_available() of the call returned
    sent,                  \* prompts POSTed to /generate during the call
    received,              \* what each POST of the call completed with
    log,                   \* lines printed during the call
    parked,                \* calls suspended at their await, as frames
    resumed,               \* the running call was suspended and resumed
    det_pc,                \* position of a Detector.detect call
    det_modality,          \* which detector runs
    det_step,              \* the next check of the detector
    det_signals,           \* the detector's `signals` list
    det_failed,            \* a check raised during this detect
    ex_pc,                 \* position of an _extract_risk_factors call
    ex_text,               \* its gemini_response argument
    ex_factors,            \* the list it returned
    ex_used,               \* the factors the aggregator turned into signals
    pr_pc,                 \* position of a pair of calls that are compared
    pr_calls,              \* the arguments of the two calls
    pr_sent,               \* what each of the two calls POSTed
    ep_pc,                 \* position of an analyze endpoint's handler
    ep_kind,               \* which endpoint: image / video / audio / text
    ep_input,              \* the upload (content type, filename) or the text
    ep_file,               \* the handler's temporary file: none/exists/deleted
    ep_exc,                \* the exception in flight in the handler
    ep_status,             \* the HTTP status answered (0: none yet)
    ep_calls               \* detector / calculate_risk invocations made

args == << modality, signals, metadata >>
locals == << total_score, signal_contributions, risk_score, risk_level,
             explanation, recommendation, gemini_analysis, gemini_signals >>
trace == << probes, sent, received, log >>
config == << base_url, tables >>
engine == << config, pc, args, locals, result, raised, trace, resumed >>
detector == << det_pc, det_modality, det_step, det_signals, det_failed >>
extractor == << ex_pc, ex_text, ex_factors, ex_used >>
pairs == << pr_pc, pr_calls, pr_sent >>
endpoint == << ep_pc, ep_kind, ep_input, ep_file, ep_exc, ep_status, ep_calls >>
outside == << extractor, pairs, endpoint >>
others == << parked, resumed, detector, outside >>
vars == << engine, parked, detector, outside >>

Unset == [ kind |-> "unset" ]
NoAnalysis == [ kind |-> "none" ]

LocalsUnset ==
    /\ total_score = 0
    /\ signal_contributions = << >>
    /\ risk_score = 0
    /\ risk_level = ""
    /\ explanation = Unset
    /\ recommendation = Unset
    /\ gemini_analysis = NoAnalysis
    /\ gemini_signals = << >>

DetectorIdle ==
    /\ det_pc = "idle"
    /\ det_modality = ""
    /\ det_step = 0
    /\ det_signals = << >>
    /\ det_failed = FALSE

NoException == [ class |-> "none" ]
NoInput == [ none |-> TRUE ]

Init ==
    /\ parked = << >>
    /\ ep_pc = "idle"
    /\ ep_kind = ""
    /\ ep_input = NoInput
    /\ ep_file = "none"
    /\ ep_exc = NoException
    /\ ep_status = 0
    /\ ep_calls = << >>
    /\ pr_pc = "idle"
    /\ pr_calls = << >>
    /\ pr_sent = << >>
    /\ ex_pc = "idle"
    /\ ex_text = << >>
    /\ ex_factors = << >>
    /\ ex_used = << >>
    /\ resumed = FALSE
    /\ DetectorIdle
    /\ base_url \in BaseUrls
    /\ tables = [ WEIGHTS |-> WEIGHTS, THRESHOLDS |-> THRESHOLDS ]
    /\ pc = "idle"
    /\ modality = ""
    /\ signals = << >>
    /\ metadata = MetaNone
    /\ LocalsUnset
    /\ result = Unset
    /\ raised = FALSE
    /\ probes = << >>
    /\ sent = << >>
    /\ received = << >>
    /\ log = << >>

\* (weights.setdefault(signal_type, 0.1) in place of weights.get)
TablesAfterSetdefault(t, m, sigs) ==
    IF sigs = << >> \/ m \notin DOMAIN t.WEIGHTS THEN t
    ELSE LET weights == t.WEIGHTS[m]
             types == { sigs[i].type : i \in 1..Len(sigs) }
         IN  [ t EXCEPT !.WEIGHTS[m] =
                 [ k \in DOMAIN weights \cup types |->
                     IF k \in DOMAIN weights THEN weights[k]
                     ELSE DefaultWeight ] ]

\* lines 76 and 85 read the table with .get; line 103 reads THRESHOLDS;
\* nothing in calculate_risk assigns into either
TablesAfterLookups(t, m, sigs) == t

\* (the early return left out)
IsEmptyPathNever(sigs) == FALSE

\* `if not signals`

IsEmptyPath(sigs) == sigs = << >>

\* calculate_risk, lines 72-113: entry, empty path or base assessment
Call(m, sigs, md) ==
    /\ pc = "idle"
    /\ modality' = m
    /\ signals' = sigs
    /\ metadata' = md
    /\ tables' = TablesAfterLookups(tables, m, sigs)
    /\ UNCHANGED << base_url, raised, trace, others >>
    /\ IF IsEmptyPath(sigs)
       THEN /\ result' = _generate_low_risk_response(m)
            /\ pc' = "done"
            /\ UNCHANGED locals
       ELSE /\ total_score' = TotalScore(m, sigs)
            /\ signal_contributions' = SignalContributions(m, sigs)
            /\ risk_score' = CapScore(total_score')
            /\ risk_level' = _determine_risk_level(risk_score')
            /\ explanation' =
                   _generate_explanation(m, signal_contributions', risk_score')
            /\ recommendation' = _generate_recommendation(risk_level', m)
            /\ gemini_analysis' = NoAnalysis
            /\ gemini_signals' = << >>
            /\ pc' = "probe"
            /\ UNCHANGED result

\* line 115: if gemini_client.is_available()
AggregatorProbe(health) ==
    /\ pc = "probe"
    /\ probes' = Append(probes, is_available(base_url, health))
    /\ pc' = IF is_available(base_url, health) THEN "analyze" ELSE "compile"
    /\ UNCHANGED << config, args, locals, result, raised, sent, received, log,
                    others >>

\* (the re-check ignored)
ClientSkipsNever(available) == FALSE

\* analyze_media_risk line 81: `if not self.is_available(): return None`

ClientSkips(available) == ~available

\* generate line 42: `if not self.base_url: return None`
GenerateSkips(url) == url = ""

\* analyze_media_risk, lines 81-109, up to the POST of generate()
ClientRecheck(health) ==
    /\ pc = "analyze"
    /\ probes' = Append(probes, is_available(base_url, health))
    /\ IF ClientSkips(is_available(base_url, health)) \/ GenerateSkips(base_url)
       THEN /\ pc' = "compile"
            /\ UNCHANGED sent
       ELSE /\ sent' = Append(sent, Prompt(modality, signals,
                                            MetaOrEmpty(metadata)))
            /\ pc' = "post"
    /\ UNCHANGED << config, args, locals, result, raised, received, log,
                    others >>

\* line 130: 'contribution': 10.5, in hundredths of a point
GeminiContribution == 1050

\* (the [:3] left out)
GeminiSignalsUncapped(additional_factors) ==
    [ i \in 1..Len(additional_factors) |->
        [ signal |-> "ai_verified_risk_factor",
          description |-> additional_factors[i],
          confidence |-> 70,
          weight |-> 15,
          contribution |-> GeminiContribution,
          evidence |-> [ source |-> "Gemini AI", factor_id |-> i ] ] ]

\* lines 124-132: the synthetic signals of the accepted factors
GeminiSignals(additional_factors) ==
    LET accepted == Take(additional_factors, MaxAdditional)
    IN  [ i \in 1..Len(accepted) |->
            [ signal |-> "ai_verified_risk_factor",
              description |-> accepted[i],
              confidence |-> 70,
              weight |-> 15,
              contribution |-> GeminiContribution,
              evidence |-> [ source |-> "Gemini AI", factor_id |-> i ] ] ]

\* a breakdown contribution (hundredths of a point) as score points
CentiToPoints(centi) == centi * (PointScale \div CentiScale)

RECURSIVE SumContributions(_)
SumContributions(gs) ==
    IF gs = << >> THEN 0
    ELSE CentiToPoints(Head(gs).contribution) + SumContributions(Tail(gs))

\* (the factors added to the already rounded base score)
AddGeminiOnRounded(total, gs) ==
    RoundPoints(total) * PointScale + SumContributions(gs)

\* (the factors listed but not added)
AddGeminiSkipped(total, gs) == total

\* lines 136-137: total_score += gs['contribution'] for each
RECURSIVE AddGemini(_, _)
AddGemini(total, gs) ==
    IF gs = << >> THEN total
    ELSE AddGemini(Accumulate(total, CentiToPoints(Head(gs).contribution)),
                   Tail(gs))

\* (the level of the base score kept)
LevelAfterMergeStale(old_level, new_score) == old_level

\* line 142: risk_level recomputed from the new score

LevelAfterMerge(old_level, new_score) == _determine_risk_level(new_score)

\* (a failed round trip tried again)
AfterGenerateRetry(outcome) ==
    IF outcome.kind = "exception" \/ outcome.status # 200
    THEN "analyze" ELSE "compile"

\* generate lines 53-62 return once, analyze_media_risk lines 109-119
\* return once, and calculate_risk goes on to line 146: no loop anywhere
AfterGenerate(outcome) == "compile"

\* (the explanation regenerated from the merged breakdown and score)
ExplanationAfterMergeRecomputed(old, m, contributions, score) ==
    _generate_explanation(m, contributions, score)

\* lines 134-142: the merge assigns total_score, signal_contributions,
\* risk_score and risk_level; `explanation` keeps the string of line 106
ExplanationAfterMerge(old, m, contributions, score) == old

\* generate() after the POST, the rest of analyze_media_risk, and the
\* merge of lines 121-144
PostCompletes(outcome) ==
    /\ pc = "post"
    /\ received' = Append(received, outcome)
    /\ LET analysis == AnalyzeReturn(GenerateReturn(outcome))
           gs == IF analysis.kind = "analysis"
                 THEN GeminiSignals(analysis.additional_context)
                 ELSE << >>
       IN  /\ log' = log
                   \o (IF GenerateLogs(outcome)
                       THEN << "Gemini API error" >> ELSE << >>)
                   \o (IF analysis.kind = "raise"
                          /\ CaughtByExceptException(analysis.exc)
                       THEN << "Gemini analysis error" >> ELSE << >>)
           /\ IF analysis.kind = "raise" /\ ~CaughtByExceptException(analysis.exc)
              THEN /\ raised' = TRUE
                   /\ pc' = "done"
                   /\ UNCHANGED locals
              ELSE /\ raised' = raised
                   /\ pc' = AfterGenerate(outcome)
                   /\ gemini_analysis' =
                          IF analysis.kind = "analysis" THEN analysis
                          ELSE NoAnalysis
                   /\ gemini_signals' = gs
                   /\ IF gs # << >>
                      THEN /\ total_score' = AddGemini(total_score, gs)
                           /\ signal_contributions' = signal_contributions \o gs
                           /\ risk_score' = CapScore(total_score')
                           /\ risk_level' = LevelAfterMerge(risk_level, risk_score')
                           /\ explanation' =
                                  ExplanationAfterMerge(explanation, modality,
                                      signal_contributions', risk_score')
                      ELSE UNCHANGED << total_score, signal_contributions,
                                        risk_score, risk_level, explanation >>
                   /\ UNCHANGED recommendation
    /\ UNCHANGED << config, args, result, probes, sent, others >>

\* (the augmentation signals left out of the count)
SignalsDetectedBase(sigs, gs) == Len(sigs)

\* line 151: len(signals) + len(gemini_signals)
SignalsDetected(sigs, gs) == Len(sigs) + Len(gs)

\* (verified only when augmentation added a signal)
GeminiVerifiedWhenAdded(analysis, gs) == gs # << >>

\* line 156: 'gemini_verified': gemini_analysis is not None
GeminiVerified(analysis, gs) == analysis # NoAnalysis

\* lines 147-162: compile and return the result
Compile ==
    /\ pc = "compile"
    /\ result' =
         [ risk_score |-> risk_score,
           risk_level |-> risk_level,
           modality |-> modality,
           signals_detected |-> SignalsDetected(signals, gemini_signals),
           signal_breakdown |-> signal_contributions,
           explanation |-> explanation,
           recommendation |-> recommendation,
           gemini_analysis |->
               IF gemini_analysis # NoAnalysis
               THEN JStr(gemini_analysis.gemini_analysis) ELSE JNull,
           gemini_verified |-> GeminiVerified(gemini_analysis, gemini_signals),
           disclaimer |-> "probabilistic risk assessment",
           timestamp |-> MetaEcho(metadata, "timestamp"),
           source |-> MetaEcho(metadata, "source") ]
    /\ pc' = "done"
    /\ UNCHANGED << config, args, locals, raised, trace, others >>

\* the caller has the result; the engine is ready for the next call
Return ==
    /\ pc = "done"
    /\ pc' = "idle"
    /\ modality' = ""
    /\ signals' = << >>
    /\ metadata' = MetaNone
    /\ total_score' = 0
    /\ signal_contributions' = << >>
    /\ risk_score' = 0
    /\ risk_level' = ""
    /\ explanation' = Unset
    /\ recommendation' = Unset
    /\ gemini_analysis' = NoAnalysis
    /\ gemini_signals' = << >>
    /\ result' = Unset
    /\ raised' = FALSE
    /\ probes' = << >>
    /\ sent' = << >>
    /\ received' = << >>
    /\ log' = << >>
    /\ resumed' = FALSE
    /\ UNCHANGED << config, parked, detector, outside >>

\* a caller (an analyze endpoint) invokes calculate_risk
Request ==
    /\ pc = "idle"
    /\ \E m \in Modalities, sigs \in SignalLists, md \in Metadatas :
           Call(m, sigs, md)

Next ==
    \/ Request
    \/ \E health \in HealthOutcomes : AggregatorProbe(health)
    \/ \E health \in HealthOutcomes : ClientRecheck(health)
    \/ \E outcome \in PostOutcomes : PostCompletes(outcome)
    \/ Compile
    \/ Return

Spec == Init /\ [][Next]_vars

\* the steps of a call that the event loop and the client's timeouts
\* (GET /health 5 s, POST /generate 30 s) bring to completion
Progress ==
    \/ \E health \in HealthOutcomes : AggregatorProbe(health)
    \/ \E health \in HealthOutcomes : ClientRecheck(health)
    \/ \E outcome \in PostOutcomes : PostCompletes(outcome)
    \/ Compile

\* the longest signal list of the calls followed to their end
MaxFairSignals == 2

FairRequest ==
    /\ pc = "idle"
    /\ \E m \in Modalities, sigs \in SeqsUpTo(SignalUniverse, MaxFairSignals),
          md \in Metadatas :
           Call(m, sigs, md)

FairNext ==
    \/ FairRequest
    \/ Progress
    \/ Return

\* every started call is run on; callers need not call, nor collect
FairSpec == Init /\ [][FairNext]_vars /\ WF_vars(Progress)

\* ------------------------------------------------- concurrent requests
\* calculate_risk is a coroutine: its arguments and locals live in its own
\* frame, and the event loop runs one call until it awaits the POST.
MaxParked == 2

\* the requests of the concurrent endpoints
ConcCalls ==
    { [ modality |-> "image",
        signals |-> << Sig("compression_anomaly", 10000, "jpeg"),
                       Sig("noise_pattern", 6000, "noise") >>,
        metadata |-> [ source |-> "feed" ] ],
      [ modality |-> "video",
        signals |-> << Sig("facial_warping", 6000, "warp") >>,
        metadata |-> MetaNone ],
      [ modality |-> "hologram",
        signals |-> << Sig("manipulation_artifacts", 10000, "ela"),
                       [ type |-> "custom_signal", confidence |-> 0,
                         description |-> "custom" ] >>,
        metadata |-> [ source |-> "wire", timestamp |-> "t1",
                       context |-> "ctx" ] ] }

\* the frame of the running call
Frame ==
    [ modality |-> modality, signals |-> signals, metadata |-> metadata,
      total_score |-> total_score,
      signal_contributions |-> signal_contributions,
      risk_score |-> risk_score, risk_level |-> risk_level,
      explanation |-> explanation, recommendation |-> recommendation,
      gemini_analysis |-> gemini_analysis, gemini_signals |-> gemini_signals,
      probes |-> probes, sent |-> sent, received |-> received, log |-> log ]

\* (total_score kept on the shared engine object instead of the frame)
ResumedTotalShared(frame, on_engine) == on_engine

\* line 79: total_score is a local of the call
ResumedTotal(frame, on_engine) == frame.total_score

Without(q, i) == SubSeq(q, 1, i - 1) \o SubSeq(q, i + 1, Len(q))

\* `await client.post(...)`: the call yields to the event loop
Suspend ==
    /\ pc = "post"
    /\ Len(parked) < MaxParked
    /\ parked' = Append(parked, Frame)
    /\ pc' = "idle"
    /\ modality' = ""
    /\ signals' = << >>
    /\ metadata' = MetaNone
    /\ total_score' = 0
    /\ signal_contributions' = << >>
    /\ risk_score' = 0
    /\ risk_level' = ""
    /\ explanation' = Unset
    /\ recommendation' = Unset
    /\ gemini_analysis' = NoAnalysis
    /\ gemini_signals' = << >>
    /\ probes' = << >>
    /\ sent' = << >>
    /\ received' = << >>
    /\ log' = << >>
    /\ resumed' = FALSE
    /\ UNCHANGED << config, result, raised, detector, outside >>

\* the event loop resumes a suspended call whose POST is about to complete
Resume(i) ==
    /\ pc = "idle"
    /\ i \in 1..Len(parked)
    /\ LET frame == parked[i]
       IN  /\ modality' = frame.modality
           /\ signals' = frame.signals
           /\ metadata' = frame.metadata
           /\ total_score' = ResumedTotal(frame, total_score)
           /\ signal_contributions' = frame.signal_contributions
           /\ risk_score' = frame.risk_score
           /\ risk_level' = frame.risk_level
           /\ explanation' = frame.explanation
           /\ recommendation' = frame.recommendation
           /\ gemini_analysis' = frame.gemini_analysis
           /\ gemini_signals' = frame.gemini_signals
           /\ probes' = frame.probes
           /\ sent' = frame.sent
           /\ received' = frame.received
           /\ log' = frame.log
    /\ parked' = Without(parked, i)
    /\ pc' = "post"
    /\ resumed' = TRUE
    /\ UNCHANGED << config, result, raised, detector, outside >>

ConcRequest ==
    /\ pc = "idle"
    /\ \E call \in ConcCalls :
           Call(call.modality, call.signals, call.metadata)

ConcNext ==
    \/ ConcRequest
    \/ Progress
    \/ Return
    \/ Suspend
    \/ \E i \in 1..MaxParked : Resume(i)

SpecConc == Init /\ [][ConcNext]_vars

\* calculate_risk run alone on (m, sigs, md), its POST (if one was made)
\* completing with outcomes[1]
SoloResult(m, sigs, md, outcomes) ==
    IF IsEmptyPath(sigs) THEN _generate_low_risk_response(m)
    ELSE
    LET base_total == TotalScore(m, sigs)
        base_score == CapScore(base_total)
        base_level == _determine_risk_level(base_score)
        breakdown == SignalContributions(m, sigs)
        returned == IF outcomes = << >> THEN NoAnalysis
                    ELSE AnalyzeReturn(GenerateReturn(outcomes[1]))
        analysis == IF returned.kind = "analysis" THEN returned ELSE NoAnalysis
        gs == IF analysis = NoAnalysis THEN << >>
              ELSE GeminiSignals(analysis.additional_context)
        score == IF gs = << >> THEN base_score
                 ELSE CapScore(AddGemini(base_total, gs))
    IN  [ risk_score |-> score,
          risk_level |-> IF gs = << >> THEN base_level
                         ELSE LevelAfterMerge(base_level, score),
          modality |-> m,
          signals_detected |-> SignalsDetected(sigs, gs),
          signal_breakdown |-> breakdown \o gs,
          explanation |-> _generate_explanation(m, breakdown, base_score),
          recommendation |-> _generate_recommendation(base_level, m),
          gemini_analysis |->
              IF analysis # NoAnalysis
              THEN JStr(analysis.gemini_analysis) ELSE JNull,
          gemini_verified |-> GeminiVerified(analysis, gs),
          disclaimer |-> "probabilistic risk assessment",
          timestamp |-> MetaEcho(md, "timestamp"),
          source |-> MetaEcho(md, "source") ]

\* -------------------------------------------------------------- detectors
\* One check of a detector: the signal it appends when it fires, with the
\* confidences it can carry (a fixed one, or the computed ones of the
\* score-dependent checks).
Check(type, confidences) == [ type |-> type, confidences |-> confidences ]

ImageChecks ==
    << Check("manipulation_artifacts", { 4500 }),
       Check("compression_anomaly", { 5500 }),
       Check("metadata_inconsistency", { 4000 }),
       Check("manipulation_artifacts", { 3500 }),
       Check("manipulation_artifacts", { 6000, 9500 }),
       Check("manipulation_artifacts", { 4000 }),
       Check("metadata_inconsistency", { 5000 }) >>

VideoChecks ==
    << Check("compression_artifact", { 4500 }),
       Check("facial_warping", { 6000 }),
       Check("lighting_shadow_anomaly", { 5500 }),
       Check("temporal_inconsistency", { 5200 }),
       Check("audio_visual_mismatch", { 5800 }),
       Check("compression_artifact", { 3500 }),
       Check("temporal_inconsistency", { 4800 }) >>

AudioChecks ==
    << Check("voice_synthesis_artifact", { 4200 }),
       Check("spectral_anomaly", { 6300 }),
       Check("phoneme_inconsistency", { 5700 }),
       Check("voice_synthesis_artifact", { 6000 }),
       Check("background_mismatch", { 4800 }),
       Check("voice_synthesis_artifact", { 3500 }),
       Check("background_mismatch", { 4500 }) >>

TextChecks ==
    << Check("sensational_language", { 4500, 8000 }),
       Check("emotional_manipulation", { 4200, 7500 }),
       Check("source_credibility", { 5000 }),
       Check("sensational_language", { 4500 }),
       Check("emotional_manipulation", { 4800 }),
       Check("sensational_language", { 4200 }),
       Check("factual_inconsistency", { 5200 }),
       Check("stylometric_drift", { 3800 }),
       Check("source_credibility", { 5500 }) >>

DetectorChecks ==
    [ image |-> ImageChecks, video |-> VideoChecks,
      audio |-> AudioChecks, text |-> TextChecks ]

DetectorKinds == DOMAIN DetectorChecks

\* the `except Exception` of detect: the signal type it appends
FallbackType ==
    [ image |-> "manipulation_artifacts",
      video |-> "compression_artifact",
      audio |-> "voice_synthesis_artifact" ]

\* which detect bodies are wrapped in try / except
HasHandler(kind) == kind \in DOMAIN FallbackType

FallbackConfidence == 3000

FallbackSignal(kind) ==
    [ type |-> FallbackType[kind],
      confidence |-> FallbackConfidence,
      description |-> "Unable to fully analyze",
      evidence |-> EmptyMap ]

\* detect(): signals = []
DetectStart(kind) ==
    /\ det_pc = "idle"
    /\ det_pc' = "running"
    /\ det_modality' = kind
    /\ det_step' = 1
    /\ det_signals' = << >>
    /\ det_failed' = FALSE
    /\ UNCHANGED << engine, parked, outside >>

\* one check evaluates without failing, and fires or not
DetectStep(fires, confidence) ==
    /\ confidence \in DetectorChecks[det_modality][det_step].confidences
    /\ det_signals' =
           IF fires
           THEN Append(det_signals,
                       [ type |-> DetectorChecks[det_modality][det_step].type,
                         confidence |-> confidence,
                         description |-> "check",
                         evidence |-> [ step |-> det_step ] ])
           ELSE det_signals
    /\ det_step' = det_step + 1
    /\ UNCHANGED << det_pc, det_modality, det_failed, engine, parked, outside >>

\* a check is still to be evaluated
CheckPending ==
    /\ det_pc = "running"
    /\ det_step <= Len(DetectorChecks[det_modality])

\* every confidence a check of some detector can report
CheckConfidences ==
    UNION { UNION { DetectorChecks[kind][i].confidences :
                        i \in 1..Len(DetectorChecks[kind]) } :
                kind \in DetectorKinds }

\* a check raises (file unreadable, corrupt media, an analysis step failing)
DetectFail ==
    /\ CheckPending
    /\ det_failed' = TRUE
    /\ IF HasHandler(det_modality)
       THEN /\ det_signals' = Append(det_signals, FallbackSignal(det_modality))
            /\ det_pc' = "returned"
       ELSE /\ det_pc' = "raised"
            /\ UNCHANGED det_signals
    /\ UNCHANGED << det_modality, det_step, engine, parked, outside >>

\* return signals
DetectFinish ==
    /\ det_pc = "running"
    /\ det_step > Len(DetectorChecks[det_modality])
    /\ det_pc' = "returned"
    /\ UNCHANGED << det_modality, det_step, det_signals, det_failed,
                    engine, parked, outside >>

\* the caller took the outcome
DetectReset ==
    /\ det_pc \in { "returned", "raised" }
    /\ det_pc' = "idle"
    /\ det_modality' = ""
    /\ det_step' = 0
    /\ det_signals' = << >>
    /\ det_failed' = FALSE
    /\ UNCHANGED << engine, parked, outside >>

NextDetect ==
    \/ \E kind \in DetectorKinds : DetectStart(kind)
    \/ /\ CheckPending
       /\ \E fires \in BOOLEAN, confidence \in CheckConfidences :
              DetectStep(fires, confidence)
    \/ DetectFail
    \/ DetectFinish
    \/ DetectReset

SpecDetect == Init /\ [][NextDetect]_vars

\* ------------------------------------------------ risk-factor extraction
\* the most lines of a response text
MaxLines == 5

\* lines of a response: an indented bullet with trailing whitespace and 11
\* characters, a bullet with 10 characters, prose, an enumerated item
\* whose number is followed by a bullet, an empty line
ResponseLines ==
    { << " ", "-", " ", "d", "e", "e", "p", "f", "a", "k", "e", " ", "o", "k",
         " ", "\r" >>,
      << "*", " " >> \o ShortItem,
      << "R" >> \o Factor("p"),
      << "4", "2", ".", " ", BulletChar, " " >> \o Factor("n"),
      << >> }

RECURSIVE JoinLines(_)
JoinLines(lines) ==
    IF Len(lines) = 1 THEN lines[1]
    ELSE lines[1] \o << NL >> \o JoinLines(Tail(lines))

\* analyze_media_risk line 118: self._extract_risk_factors(response)
ExtractCall(text) ==
    /\ ex_text' = text
    /\ ex_factors' = _extract_risk_factors(text)
    /\ ex_pc' = "returned"
    /\ UNCHANGED << ex_used, engine, parked, detector, pairs, endpoint >>

ExtractRequest ==
    /\ ex_pc = "idle"
    /\ \E lines \in SeqsUpTo(ResponseLines, MaxLines) \ { << >> } :
           ExtractCall(JoinLines(lines))

\* calculate_risk lines 123-132: the factors that become signals
AggregatorUses ==
    /\ ex_pc = "returned"
    /\ ex_used' = [ i \in 1..Len(GeminiSignals(ex_factors)) |->
                      GeminiSignals(ex_factors)[i].description ]
    /\ ex_pc' = "merged"
    /\ UNCHANGED << ex_text, ex_factors, engine, parked, detector, pairs, endpoint >>

ExtractReset ==
    /\ ex_pc = "merged"
    /\ ex_pc' = "idle"
    /\ ex_text' = << >>
    /\ ex_factors' = << >>
    /\ ex_used' = << >>
    /\ UNCHANGED << engine, parked, detector, pairs, endpoint >>

NextExtract ==
    \/ ExtractRequest
    \/ AggregatorUses
    \/ ExtractReset

SpecExtract == Init /\ [][NextExtract]_vars

\* ------------------------------------------------- two calls compared
\* the longest signals list of the compared calls
MaxPairSignals == 6

\* the signals lists of the compared calls
PairLists ==
    SeqsUpTo({ Sig("manipulation_artifacts", 10000, "ela"),
               Sig("noise_pattern", 6000, "noise") }, MaxPairSignals)

\* what a call POSTs when the service is available: nothing on the empty
\* path, else json={"text": prompt} to /generate
RequestOf(m, sigs, md) ==
    IF IsEmptyPath(sigs) THEN << >>
    ELSE << [ path |-> "/generate",
              json |-> [ text |-> Prompt(m, sigs, MetaOrEmpty(md)) ] ] >>

\* two calls with the same modality and metadata are made
PairCall(m, md, left, right) ==
    /\ pr_calls' = << [ modality |-> m, signals |-> left, metadata |-> md ],
                      [ modality |-> m, signals |-> right, metadata |-> md ] >>
    /\ pr_pc' = "called"
    /\ UNCHANGED << pr_sent, engine, parked, detector, extractor, endpoint >>

PairRequest ==
    /\ pr_pc = "idle"
    /\ \E m \in { "image", "video" },
          md \in { MetaNone, [ source |-> "wire", timestamp |-> "t1",
                               context |-> "ctx" ] },
          left \in PairLists, right \in PairLists :
           PairCall(m, md, left, right)

\* each call reaches its POST
PairSend ==
    /\ pr_pc = "called"
    /\ pr_sent' = [ i \in 1..2 |->
                      RequestOf(pr_calls[i].modality, pr_calls[i].signals,
                                pr_calls[i].metadata) ]
    /\ pr_pc' = "sent"
    /\ UNCHANGED << pr_calls, engine, parked, detector, extractor, endpoint >>

PairReset ==
    /\ pr_pc = "sent"
    /\ pr_pc' = "idle"
    /\ pr_calls' = << >>
    /\ pr_sent' = << >>
    /\ UNCHANGED << engine, parked, detector, extractor, endpoint >>

NextPair ==
    \/ PairRequest
    \/ PairSend
    \/ PairReset

SpecPair == Init /\ [][NextPair]_vars

\* ---------------------------------------------------- analyze endpoints
\* the major types the upload endpoints name
Major ==
    [ image |-> << "i", "m", "a", "g", "e" >>,
      video |-> << "v", "i", "d", "e", "o" >>,
      audio |-> << "a", "u", "d", "i", "o" >> ]

\* an Optional[str]: None or a string
PyNone == [ kind |-> "none" ]
PyStr(chars) == [ kind |-> "str", chars |-> chars ]

\* the content_type of an upload
ContentTypes ==
    { PyNone, PyStr(<< >>),
      PyStr(Major["image"] \o << "/", "x" >>),
      PyStr(Major["video"] \o << "/", "x" >>),
      PyStr(Major["audio"] \o << "/", "x" >>),
      PyStr(Major["image"]),
      PyStr(<< "t", "e", "x", "t", "/", "x" >>) }

\* the text form field
Texts ==
    { << >>, << " ", "\t" >>, << "h", "i" >>, << " ", "h", "i", "\n" >> }

UploadKinds == { "image", "video", "audio" }

\* the prefix each upload endpoint tests for
TypePrefix == [ kind \in UploadKinds |-> Major[kind] \o << "/" >> ]

\* str.startswith
StartsWith(str, prefix) ==
    /\ Len(str) >= Len(prefix)
    /\ SubSeq(str, 1, Len(prefix)) = prefix

\* `not file.content_type or not file.content_type.startswith('image/')`
BadContentType(kind, content_type) ==
    \/ content_type = PyNone
    \/ content_type.chars = << >>
    \/ ~StartsWith(content_type.chars, TypePrefix[kind])

\* `not text or len(text.strip()) == 0`
BadText(text) == text = << >> \/ Len(Strip(text)) = 0

\* the handlers' outer `except Exception as e`: the classes raised inside a
\* handler all derive from Exception
\* (fastapi.HTTPException <- starlette HTTPException <- Exception)
CaughtByOuterExcept(exc) ==
    exc.class \in { "HTTPException", "TypeError", "OSError", "Exception" }

\* a request arrives at an endpoint
Receive(kind, input) ==
    /\ ep_kind' = kind
    /\ ep_input' = input
    /\ ep_pc' = "validate"
    /\ UNCHANGED << ep_file, ep_exc, ep_status, ep_calls,
                    engine, parked, detector, extractor, pairs >>

EndpointRequest ==
    /\ ep_pc = "idle"
    /\ \/ \E kind \in UploadKinds, c \in ContentTypes,
             f \in { NoneValue, "upload.bin" } :
              Receive(kind, [ content_type |-> c, filename |-> f ])
       \/ \E text \in Texts : Receive("text", [ text |-> text ])

\* main.py lines 68-69 / 211-212: the validation inside the outer try
Validate ==
    /\ ep_pc = "validate"
    /\ IF \/ ep_kind \in UploadKinds
             /\ BadContentType(ep_kind, ep_input.content_type)
          \/ ep_kind = "text" /\ BadText(ep_input.text)
       THEN /\ ep_exc' = [ class |-> "HTTPException", status_code |-> 400 ]
            /\ ep_pc' = "except"
       ELSE /\ ep_exc' = ep_exc
            /\ ep_pc' = IF ep_kind = "text" THEN "detect" ELSE "save"
    /\ UNCHANGED << ep_kind, ep_input, ep_file, ep_status, ep_calls,
                    engine, parked, detector, extractor, pairs >>

\* lines 72-75: NamedTemporaryFile(delete=False, suffix=Path(filename).suffix),
\* await file.read(), tmp_file.write(content); `io` is what the read and
\* the write do
Save(io) ==
    /\ ep_pc = "save"
    /\ IF ep_input.filename = NoneValue
       THEN /\ ep_exc' = [ class |-> "TypeError" ]
            /\ ep_pc' = "except"
            /\ UNCHANGED ep_file
       ELSE /\ ep_file' = "exists"
            /\ IF io = "ok"
               THEN ep_pc' = "detect" /\ UNCHANGED ep_exc
               ELSE ep_pc' = "except" /\ ep_exc' = [ class |-> "OSError" ]
    /\ UNCHANGED << ep_kind, ep_input, ep_status, ep_calls,
                    engine, parked, detector, extractor, pairs >>

\* lines 79-83: the detector runs; only TextDetector.detect can raise
Detect(outcome) ==
    /\ ep_pc = "detect"
    /\ HasHandler(ep_kind) => outcome = "returns"
    /\ ep_calls' = Append(ep_calls, "detect")
    /\ IF outcome = "returns"
       THEN ep_pc' = "score" /\ UNCHANGED ep_exc
       ELSE ep_pc' = "except" /\ ep_exc' = [ class |-> "Exception" ]
    /\ UNCHANGED << ep_kind, ep_input, ep_file, ep_status,
                    engine, parked, detector, extractor, pairs >>

\* lines 86-92: await calculate_risk and build the JSONResponse
Score(outcome) ==
    /\ ep_pc = "score"
    /\ ep_calls' = Append(ep_calls, "calculate_risk")
    /\ ep_exc' = IF outcome = "returns" THEN ep_exc
                 ELSE [ class |-> "Exception" ]
    /\ ep_pc' = IF ep_kind \in UploadKinds THEN "finally"
                ELSE IF outcome = "returns" THEN "respond" ELSE "except"
    /\ UNCHANGED << ep_kind, ep_input, ep_file, ep_status,
                    engine, parked, detector, extractor, pairs >>

\* lines 94-96: finally: os.unlink(tmp_path)
Finally ==
    /\ ep_pc = "finally"
    /\ ep_file' = "deleted"
    /\ ep_pc' = IF ep_exc = NoException THEN "respond" ELSE "except"
    /\ UNCHANGED << ep_kind, ep_input, ep_exc, ep_status, ep_calls,
                    engine, parked, detector, extractor, pairs >>

\* line 92: return JSONResponse(content=result)
Respond ==
    /\ ep_pc = "respond"
    /\ ep_status' = 200
    /\ ep_pc' = "done"
    /\ UNCHANGED << ep_kind, ep_input, ep_file, ep_exc, ep_calls,
                    engine, parked, detector, extractor, pairs >>

\* lines 98-99: except Exception as e: raise HTTPException(status_code=500)
Except ==
    /\ ep_pc = "except"
    /\ ep_status' = IF CaughtByOuterExcept(ep_exc) THEN 500
                    ELSE ep_exc.status_code
    /\ ep_pc' = "done"
    /\ UNCHANGED << ep_kind, ep_input, ep_file, ep_exc, ep_calls,
                    engine, parked, detector, extractor, pairs >>

\* the response was sent; the handler's frame is gone (a file left on disk
\* stays there, but is no longer this model's to track)
EndpointReset ==
    /\ ep_pc = "done"
    /\ ep_pc' = "idle"
    /\ ep_kind' = ""
    /\ ep_input' = NoInput
    /\ ep_file' = "none"
    /\ ep_exc' = NoException
    /\ ep_status' = 0
    /\ ep_calls' = << >>
    /\ UNCHANGED << engine, parked, detector, extractor, pairs >>

NextEndpoint ==
    \/ EndpointRequest
    \/ Validate
    \/ \E io \in { "ok", "read_error", "write_error" } : Save(io)
    \/ \E outcome \in { "returns", "raises" } : Detect(outcome)
    \/ \E outcome \in { "returns", "raises" } : Score(outcome)
    \/ Finally
    \/ Respond
    \/ Except
    \/ EndpointReset

SpecEndpoint == Init /\ [][NextEndpoint]_vars

\* =================================================================== claims
\* The statements below restate what the specification promises, without
\* using the operators of the scoring path (TotalScore, CapScore, AddGemini,
\* _determine_risk_level), so that they are checked against the model and
\* not against themselves.

Returned == pc = "done" /\ ~raised
ReturnedScored == Returned /\ signals # << >>

\* sum over the input signals of confidence_i * weight_i * 100, unrounded
RECURSIVE RawSum(_, _)
RawSum(m, sigs) ==
    IF sigs = << >> THEN 0
    ELSE Head(sigs).confidence * WeightFor(m, Head(sigs).type)
             + RawSum(m, Tail(sigs))

AugmentationPoints == 105000

\* min(100, round(S)) for S = raw sum plus 10.5 per accepted factor
ExpectedScore(m, sigs, accepted) ==
    LET S == RawSum(m, sigs) + accepted * AugmentationPoints
        rounded == RoundHalfEven(S, PointScale)
    IN  IF rounded > 100 THEN 100 ELSE rounded

ExpectedLevel(score) ==
    IF score < 30 THEN "Low" ELSE IF score < 60 THEN "Medium" ELSE "High"

AugmentationEntries(breakdown) ==
    Cardinality({ i \in 1..Len(breakdown) :
                      breakdown[i].signal = "ai_verified_risk_factor" })

\* the pre-augmentation computation of the current call
BaseAssessmentReturned ==
    /\ result.risk_score = ExpectedScore(modality, signals, 0)
    /\ result.risk_level = ExpectedLevel(ExpectedScore(modality, signals, 0))
    /\ result.signal_breakdown = SignalContributions(modality, signals)
    /\ result.signals_detected = Len(signals)

\* C1: for a non-empty signals list the returned risk_score is an integer
\* between 0 and 100, whatever the augmentation client did.
C1_ScoreInRange ==
    ReturnedScored => result.risk_score \in 0..100

\* the cap acted: the unrounded total is above 100 points
C1_Witness ==
    /\ ReturnedScored
    /\ total_score > 100 * PointScale
    /\ result.risk_score = 100

\* C2: the returned risk_score is min(100, round(S)), S being the unrounded
\* sum of the signals' contributions plus 10.5 per accepted factor, rounded
\* once.
C2_ScoreIsRoundedSum ==
    ReturnedScored =>
        result.risk_score =
            ExpectedScore(modality, signals,
                           AugmentationEntries(result.signal_breakdown))

\* factors were accepted on top of a base total with a fractional part
C2_Witness ==
    /\ ReturnedScored
    /\ Len(gemini_signals) = 3
    /\ Len(signals) >= 2
    /\ RawSum(modality, signals) % PointScale # 0

\* sum of the breakdown's contribution values, then min(100, round(sum))
RECURSIVE BreakdownSum(_)
BreakdownSum(breakdown) ==
    IF breakdown = << >> THEN 0
    ELSE Head(breakdown).contribution + BreakdownSum(Tail(breakdown))

Recomputed(breakdown) ==
    LET rounded == RoundHalfEven(BreakdownSum(breakdown), CentiScale)
    IN  IF rounded > 100 THEN 100 ELSE rounded

Abs(x) == IF x < 0 THEN 0 - x ELSE x

C4_LevelMatchesScore ==
    Returned => result.risk_level = ExpectedLevel(result.risk_score)

\* augmentation moved the score into another level
C4_Witness ==
    /\ ReturnedScored
    /\ gemini_signals # << >>
    /\ ExpectedLevel(ExpectedScore(modality, signals, 0)) # result.risk_level

\* C5: an empty signals list returns score 0, level Low, no signals and an
\* empty breakdown, for every modality and metadata.
C5_EmptyIsZero ==
    (Returned /\ signals = << >>) =>
        /\ result.risk_score = 0
        /\ result.risk_level = "Low"
        /\ result.signals_detected = 0
        /\ result.signal_breakdown = << >>

C5_Witness ==
    /\ Returned
    /\ signals = << >>
    /\ modality = "hologram"
    /\ metadata # MetaNone
    /\ result.risk_score = 0

\* C6: on the empty-signals path neither is_available nor generate is
\* invoked before the result is returned.
C6_EmptyNoClient ==
    (pc # "idle" /\ signals = << >>) => (probes = << >> /\ sent = << >>)

\* an empty call returned while the client was configured
C6_Witness ==
    /\ Returned
    /\ signals = << >>
    /\ base_url # ""
    /\ probes = << >>

Front(seq) == SubSeq(seq, 1, Len(seq) - 1)
Last(seq) == seq[Len(seq)]

\* C7: with the same modality and augmentation outcome, a list ending in a
\* signal of positive confidence and weight never scores below the list
\* without that signal.
C7_Monotone ==
    (/\ ReturnedScored
     /\ Last(signals).confidence > 0
     /\ WeightFor(modality, Last(signals).type) > 0) =>
        result.risk_score >=
            ExpectedScore(modality, Front(signals), Len(gemini_signals))

\* the appended signal raised the score
C7_Witness ==
    /\ ReturnedScored
    /\ Len(signals) >= 2
    /\ Last(signals).confidence > 0
    /\ result.risk_score >
           ExpectedScore(modality, Front(signals), Len(gemini_signals))

\* C8: when is_available reported unavailable, at the aggregator or at the
\* client's re-check, no generate request is sent, nothing is raised,
\* gemini_verified is false and the result is the base assessment.
C8_UnavailableIsBase ==
    (/\ pc = "done"
     /\ signals # << >>
     /\ \E i \in 1..Len(probes) : ~probes[i]) =>
        /\ sent = << >>
        /\ ~raised
        /\ result.gemini_verified = FALSE
        /\ BaseAssessmentReturned

\* the aggregator's probe succeeded and the client's re-check failed
C8_Witness ==
    /\ Returned
    /\ signals # << >>
    /\ probes = << TRUE, FALSE >>

\* a round trip that failed: transport error or timeout, non-200 status,
\* undecodable body, or a body with no usable text
RoundTripFailed(outcome) ==
    \/ outcome.kind = "exception"
    \/ /\ outcome.kind = "response"
       /\ \/ outcome.status # 200
          \/ outcome.body.kind \in { "invalid", "list" }
          \/ /\ outcome.body.kind = "dict"
             /\ \A key \in { "text", "response" } :
                    \/ key \notin DOMAIN outcome.body.fields
                    \/ outcome.body.fields[key].kind # "str"
                    \/ outcome.body.fields[key].chars = << >>

\* C9: when the probes succeed and the round trip fails, calculate_risk
\* returns normally and score, level, breakdown and count are the base
\* assessment's.
C9_FailedRoundTripIsBase ==
    (/\ pc = "done"
     /\ received # << >>
     /\ RoundTripFailed(Last(received))) =>
        /\ ~raised
        /\ BaseAssessmentReturned

\* the client raised inside analyze_media_risk and the aggregator caught it
C9_Witness ==
    /\ Returned
    /\ received # << >>
    /\ RoundTripFailed(Last(received))
    /\ "Gemini analysis error" \in { log[i] : i \in 1..Len(log) }

\* sum of confidence * 0.1 * 100 over a list
RECURSIVE RawSumDefault(_)
RawSumDefault(sigs) ==
    IF sigs = << >> THEN 0
    ELSE Head(sigs).confidence * 10 + RawSumDefault(Tail(sigs))

DefaultWeighted(m, type) ==
    \/ m \notin { "image", "video", "audio", "text" }
    \/ type \notin DOMAIN WEIGHTS[m]

\* C10: a signal whose type is not in the call's modality table, and every
\* signal of an unknown modality, has weight 0.1 and contribution
\* confidence * 0.1 * 100 (shown at two decimals) and nothing is raised.
C10_DefaultWeight ==
    /\ pc = "done" /\ signals # << >> => ~raised
    /\ ReturnedScored =>
        /\ \A i \in 1..Len(signals) :
               DefaultWeighted(modality, signals[i].type) =>
                   /\ result.signal_breakdown[i].weight = 10
                   /\ result.signal_breakdown[i].contribution =
                          RoundHalfEven(signals[i].confidence * 10,
                                        PointScale \div CentiScale)
        /\ (/\ \A i \in 1..Len(signals) :
                   DefaultWeighted(modality, signals[i].type)
            /\ gemini_signals = << >>) =>
               total_score =
                   RawSumDefault(signals)

\* an unknown modality, and a video-only type under image, both scored
C10_Witness ==
    /\ ReturnedScored
    /\ \/ modality = "hologram"
       \/ modality = "image" /\ Last(signals).type = "facial_warping"
    /\ Last(signals).confidence > 0
    /\ result.risk_score > 0

\* the entries of a breakdown after the first n
After(breakdown, n) == SubSeq(breakdown, n + 1, Len(breakdown))

\* C11: augmentation adds at most 3 entries, each with confidence 0.70,
\* weight 0.15, contribution 10.5, signal ai_verified_risk_factor, and
\* evidence naming the origin and the 1-based position of the factor.
C11_AugmentationEntries ==
    ReturnedScored =>
        LET added == After(result.signal_breakdown, Len(signals))
        IN  /\ Len(added) <= 3
            /\ \A k \in 1..Len(added) :
                   /\ added[k].signal = "ai_verified_risk_factor"
                   /\ added[k].confidence = 70
                   /\ added[k].weight = 15
                   /\ added[k].contribution = 1050
                   /\ added[k].evidence =
                          [ source |-> "Gemini AI", factor_id |-> k ]

\* the client returned four factors and three entries were added
C11_Witness ==
    /\ ReturnedScored
    /\ gemini_analysis # NoAnalysis
    /\ Len(gemini_analysis.additional_context) = 4
    /\ Len(result.signal_breakdown) = Len(signals) + 3

\* C12: the breakdown has one entry per input signal in input order, never
\* sorted, followed by the augmentation entries in factor order.
C12_BreakdownOrder ==
    ReturnedScored =>
        LET n == Len(signals)
            added == After(result.signal_breakdown, n)
        IN  /\ Len(result.signal_breakdown) >= n
            /\ \A i \in 1..n :
                   /\ result.signal_breakdown[i].signal = signals[i].type
                   /\ result.signal_breakdown[i].description =
                          signals[i].description
            /\ \A k \in 1..Len(added) :
                   /\ added[k].signal = "ai_verified_risk_factor"
                   /\ added[k].description =
                          gemini_analysis.additional_context[k]

\* a list given in ascending contribution order, with factors appended
C12_Witness ==
    /\ ReturnedScored
    /\ Len(signals) >= 2
    /\ result.signal_breakdown[1].contribution
           < result.signal_breakdown[2].contribution
    /\ Len(result.signal_breakdown) = Len(signals) + 3

\* C13: the returned recommendation is the table record of the returned
\* risk_level, also when augmentation raised the level.
C13_RecommendationMatchesLevel ==
    ReturnedScored =>
        /\ result.recommendation.priority = result.risk_level
        /\ result.recommendation =
               _generate_recommendation(result.risk_level, modality)

\* C14: signals_detected is the number of detector signals plus the number
\* of augmentation signals, and the length of signal_breakdown.
C14_SignalsDetected ==
    Returned =>
        /\ result.signals_detected =
               Len(signals) + AugmentationEntries(result.signal_breakdown)
        /\ result.signals_detected = Len(result.signal_breakdown)

\* both kinds of signal are counted
C14_Witness ==
    /\ ReturnedScored
    /\ Len(signals) = 2
    /\ Len(gemini_signals) = 1
    /\ result.signals_detected = 3

MetaKeyOrNull(md, key) ==
    IF md # MetaNone /\ key \in DOMAIN md THEN md[key] ELSE NoneValue

\* C15: every returned assessment echoes metadata.timestamp and
\* metadata.source, null only when metadata or the key is absent.
C15_EchoesMetadata ==
    Returned =>
        /\ result.timestamp = MetaKeyOrNull(metadata, "timestamp")
        /\ result.source = MetaKeyOrNull(metadata, "source")

\* C19: a type defined in the call's modality table gets that weight; a
\* type defined only in another modality's table gets the default 0.1.
C19_ModalityScoped ==
    ReturnedScored =>
        \A i \in 1..Len(signals) :
            LET type == signals[i].type
                entry == result.signal_breakdown[i]
            IN  /\ (modality \in DOMAIN WEIGHTS /\ type \in DOMAIN WEIGHTS[modality])
                       => entry.weight = WEIGHTS[modality][type]
                /\ (/\ modality \in DOMAIN WEIGHTS
                    /\ type \notin DOMAIN WEIGHTS[modality]
                    /\ \E other \in DOMAIN WEIGHTS : type \in DOMAIN WEIGHTS[other])
                       => entry.weight = 10

\* facial_warping is weighted 0.1 under image next to an image type at 0.35
C19_Witness ==
    /\ ReturnedScored
    /\ modality = "image"
    /\ Len(signals) = 2
    /\ signals[1].type = "facial_warping"
    /\ signals[2].type = "manipulation_artifacts"
    /\ result.signal_breakdown[1].weight = 10
    /\ result.signal_breakdown[2].weight = 35

\* the explanation lists the entries picked by `pick` (positions in the
\* input list), which are the top min(3, n) under the values `value`:
\* descending, equal values in detection order, nothing larger left out
ListsTopThree(expl, value, pick) ==
    LET n == Len(signals)
        k == Len(expl.top)
    IN  /\ \A r \in 1..k :
               /\ expl.top[r].rank = r
               /\ expl.top[r].signal = signals[pick[r]].type
               /\ expl.top[r].description = signals[pick[r]].description
        /\ \A r, q \in 1..k : r < q =>
               /\ pick[r] # pick[q]
               /\ \/ value[pick[r]] > value[pick[q]]
                  \/ value[pick[r]] = value[pick[q]] /\ pick[r] < pick[q]
        /\ \A j \in 1..n : (\A r \in 1..k : pick[r] # j) =>
               \/ value[j] < value[pick[k]]
               \/ value[j] = value[pick[k]] /\ j > pick[k]

ExplainsBy(value) ==
    LET expl == result.explanation
        n == Len(signals)
    IN  /\ expl.kind = "summary"
        /\ Len(expl.top) = (IF n < 3 THEN n ELSE 3)
        /\ \E pick \in [ 1..Len(expl.top) -> 1..n ] :
               ListsTopThree(expl, value, pick)

C16_DetectorFallback ==
    /\ det_pc # "raised"
    /\ (det_pc = "returned" /\ det_failed) =>
           /\ Len(det_signals) = 1
           /\ det_signals[1].confidence = 3000
           /\ det_signals[1].evidence = EmptyMap
           /\ HasHandler(det_modality) =>
                  det_signals[1].type = FallbackType[det_modality]

\* the multi-signal case of C16: a handled failure after a check fired
C16_HandledFailureIsSingle ==
    (det_pc = "returned" /\ det_failed) => Len(det_signals) = 1

\* the ten keys of a complete assessment
AssessmentKeys ==
    { "risk_score", "risk_level", "modality", "signals_detected",
      "signal_breakdown", "explanation", "recommendation", "disclaimer",
      "timestamp", "source" }

InProgress == pc \in { "probe", "analyze", "post", "compile" }

Complete(r) == r # Unset /\ AssessmentKeys \subseteq DOMAIN r

\* C17: a call of calculate_risk, whatever the augmentation client does,
\* ends, and ends by returning an assessment with all ten keys: it never
\* raises and never returns a partial result.
C17_TerminatesComplete ==
    /\ [](pc = "done" => ~raised /\ Complete(result))
    /\ [](pc # "done" => result = Unset)
    /\ (InProgress ~> pc = "done")

C17_Witness ==
    /\ pc = "done"
    /\ ~raised
    /\ Complete(result)
    /\ Len(received) = 1
    /\ AnalyzeReturn(GenerateReturn(received[1])).kind = "raise"

\* C18: under any interleaving of calls suspended at the augmentation
\* round trip, a call returns what it returns when run alone with the
\* same inputs and the same augmentation response; the calls parked
\* meanwhile keep their own arguments and locals.
C18_NoInterference ==
    /\ Returned => result = SoloResult(modality, signals, metadata, received)
    /\ \A i \in 1..Len(parked) :
           /\ parked[i].total_score
                  = TotalScore(parked[i].modality, parked[i].signals)
           /\ parked[i].received = << >>

\* a call that was suspended and resumed returned an augmented result
\* while another call, started before it returned, is still suspended
C18_Witness ==
    /\ Returned
    /\ resumed
    /\ result.gemini_verified
    /\ AugmentationEntries(result.signal_breakdown) = 3
    /\ parked # << >>
    /\ parked[1].modality # modality

\* C21: the returned explanation is the one generated before the
\* augmentation round trip: it states the pre-augmentation score and the
\* detector-only signal count and lists no augmentation-sourced entry,
\* also when the returned risk_score and signals_detected differ.
C21_ExplanationIsBase ==
    ReturnedScored =>
        /\ result.explanation
               = _generate_explanation(modality,
                     SignalContributions(modality, signals),
                     ExpectedScore(modality, signals, 0))
        /\ result.explanation.score = ExpectedScore(modality, signals, 0)
        /\ result.explanation.count = Len(signals)
        /\ \A k \in 1..Len(result.explanation.top) :
               result.explanation.top[k].signal # "ai_verified_risk_factor"

\* augmentation changed the score and the count, and one of its 10.5
\* contributions would rank among the top three
C21_Witness ==
    /\ ReturnedScored
    /\ result.gemini_verified
    /\ result.risk_score # result.explanation.score
    /\ result.signals_detected # result.explanation.count
    /\ \E k \in 1..Len(result.explanation.top) :
           result.explanation.top[k].contribution < 105

\* the line without its leading enumeration / bullet characters, trimmed
Unprefixed(t) ==
    LET lead == Digits \cup { ".", "-", "*", BulletChar, " " }
        kept == { i \in 1..Len(t) : \E j \in 1..i : t[j] \notin lead }
        body == [ i \in 1..Cardinality(kept) |-> t[Len(t) - Cardinality(kept) + i] ]
        ws == { i \in 1..Len(body) : \A j \in i..Len(body) : body[j] \in Whitespace }
    IN  SubSeq(body, 1, Len(body) - Cardinality(ws))

Trimmed(l) ==
    LET inner == { i \in 1..Len(l) :
                     /\ \E j \in 1..i : l[j] \notin Whitespace
                     /\ \E j \in i..Len(l) : l[j] \notin Whitespace }
        first == Len(l) + 1
                   - Cardinality({ i \in 1..Len(l) :
                                     \E j \in 1..i : l[j] \notin Whitespace })
    IN  [ i \in 1..Cardinality(inner) |-> l[first + i - 1] ]

AcceptedLine(l) ==
    LET t == Trimmed(l)
    IN  /\ t # << >>
        /\ t[1] \in Digits \cup { "-", "*", BulletChar }
        /\ Len(Unprefixed(t)) > 10

AcceptedFactors(text) ==
    LET lines == SelectSeq(Split(text), AcceptedLine)
    IN  [ i \in 1..Len(lines) |-> Unprefixed(Trimmed(lines[i])) ]

\* C22: a line is accepted exactly when, trimmed, it starts with a digit or
\* a bullet and its text without the leading enumeration / bullet characters
\* is longer than 10 characters; the factors keep the line order, the client
\* returns the first 4 at most and the aggregator uses the first 3 at most.
C22_ExtractionRule ==
    /\ ex_pc \in { "returned", "merged" } =>
           LET accepted == AcceptedFactors(ex_text)
           IN  /\ Len(ex_factors) <= 4
               /\ ex_factors = SubSeq(accepted, 1, Min(4, Len(accepted)))
    /\ ex_pc = "merged" =>
           /\ Len(ex_used) <= 3
           /\ ex_used = SubSeq(ex_factors, 1, Min(3, Len(ex_factors)))

\* five lines are acceptable, a 10-character item and a prose line are not
C22_Witness ==
    /\ ex_pc = "merged"
    /\ Len(AcceptedFactors(ex_text)) = 5
    /\ Len(ex_factors) = 4
    /\ Len(ex_used) = 3
    /\ ex_used[1] # ex_used[2]

\* a response with a rejected 10-character item between accepted lines
C22_WitnessBoundary ==
    /\ ex_pc = "returned"
    /\ Len(Split(ex_text)) = 3
    /\ Trimmed(Split(ex_text)[2]) = << "*", " " >> \o ShortItem
    /\ Len(ex_factors) = 2

\* the POST ended without a 200 response
NoAnswer(outcome) == outcome.kind = "exception" \/ outcome.status # 200

\* C23: one calculate_risk call issues the generate request at most once;
\* after a timeout, a transport failure or a non-200 response nothing is
\* sent again and the call goes on to return the base assessment.
C23_SingleAttempt ==
    /\ [](Len(sent) <= 1 /\ Len(received) <= Len(sent))
    /\ [][received # << >> /\ pc # "done" => sent' = sent]_vars
    /\ [](Returned /\ received # << >> /\ NoAnswer(received[1]) =>
              /\ result.risk_score = CapScore(TotalScore(modality, signals))
              /\ ~result.gemini_verified
              /\ AugmentationEntries(result.signal_breakdown) = 0)
    /\ ((pc = "post") ~> (pc = "done"))

\* a call returned after its only POST timed out
C23_Witness ==
    /\ Returned
    /\ Len(sent) = 1
    /\ received = << [ kind |-> "exception", exc |-> "TimeoutException" ] >>
    /\ probes = << TRUE, TRUE >>

\* C24: calculate_risk leaves WEIGHTS, THRESHOLDS, the caller's signals
\* list and the metadata mapping as they were, on every path, including an
\* augmentation that extends the breakdown.
C24_Frame ==
    /\ [](tables = [ WEIGHTS |-> WEIGHTS, THRESHOLDS |-> THRESHOLDS ])
    /\ [][pc # "idle" /\ pc' # "idle" =>
              signals' = signals /\ metadata' = metadata]_vars
    /\ [](pc = "done" /\ signals # << >> =>
              /\ Len(result.signal_breakdown)
                     = Len(signals) + Len(gemini_signals)
              /\ \A i \in 1..Len(signals) :
                     result.signal_breakdown[i].signal = signals[i].type)

\* a call with a type missing from its modality's table returned with the
\* breakdown extended by augmentation
C24_Witness ==
    /\ Returned
    /\ modality = "image"
    /\ \E i \in 1..Len(signals) : signals[i].type \notin DOMAIN WEIGHTS["image"]
    /\ metadata # MetaNone
    /\ Len(result.signal_breakdown) = Len(signals) + 3

\* the first five elements of a list (all of it when shorter)
FirstFive(q) == SubSeq(q, 1, Min(5, Len(q)))

\* C25: two calls with the same modality and metadata whose signals lists
\* agree on their first five elements send the same request to the
\* augmentation service, whatever the remaining signals are.
C25_RequestDependsOnFirstFive ==
    (/\ pr_pc = "sent"
     /\ FirstFive(pr_calls[1].signals) = FirstFive(pr_calls[2].signals)) =>
        pr_sent[1] = pr_sent[2]

\* two lists that differ only after their fifth signal were sent
C25_Witness ==
    /\ pr_pc = "sent"
    /\ Len(pr_calls[1].signals) = 6
    /\ Len(pr_calls[2].signals) = 6
    /\ FirstFive(pr_calls[1].signals) = FirstFive(pr_calls[2].signals)
    /\ pr_calls[1].signals[6] # pr_calls[2].signals[6]
    /\ pr_sent[1] # << >>

\* the request is one that input validation rejects
Rejected ==
    \/ /\ ep_kind \in UploadKinds
       /\ \/ ep_input.content_type \in { PyNone, PyStr(<< >>) }
          \/ ep_input.content_type
                 \notin { PyStr(Major[k] \o << "/", "x" >>) : k \in UploadKinds }
          \/ ep_input.content_type.chars[1] # TypePrefix[ep_kind][1]
    \/ /\ ep_kind = "text"
       /\ \A i \in 1..Len(ep_input.text) : ep_input.text[i] \in Whitespace

\* C26: a request rejected by input validation is answered with status 400
\* and neither the detector nor calculate_risk is invoked for it.
C26_RejectedIs400 ==
    (ep_pc = "done" /\ Rejected) =>
        /\ ep_status = 400
        /\ ep_calls = << >>

\* the part of C26 that the handlers do keep: nothing runs for a rejected
\* request
C26_RejectedRunsNothing ==
    (ep_pc = "done" /\ Rejected) => ep_calls = << >>

\* C27: when an upload request completes, the temporary file it created
\* has been deleted, on every path.
C27_TempFileDeleted ==
    (ep_pc = "done" /\ ep_kind \in UploadKinds) => ep_file # "exists"

\* the part of C27 that the handlers do keep: once the upload was saved,
\* the file is deleted however detection and scoring end
C27_DeletedAfterSave ==
    (ep_pc = "done" /\ ep_calls # << >> /\ ep_kind \in UploadKinds) =>
        ep_file = "deleted"

\* analyze_media_risk returned an analysis to the current call
AnalysisReturned ==
    /\ received # << >>
    /\ AnalyzeReturn(GenerateReturn(received[1])).kind = "analysis"

\* C28: gemini_verified is true exactly when analyze_media_risk returned an
\* analysis; when that analysis yields no accepted risk factor,
\* gemini_verified is true while score, level, breakdown and count are the
\* base values.
C28_VerifiedIffAnalysis ==
    /\ ReturnedScored => (result.gemini_verified <=> AnalysisReturned)
    /\ (Returned /\ signals = << >>) =>
           /\ ~AnalysisReturned
           /\ "gemini_verified" \in DOMAIN result => ~result.gemini_verified
    /\ (/\ ReturnedScored
        /\ AnalysisReturned
        /\ AnalyzeReturn(GenerateReturn(received[1])).additional_context
               = << >>) =>
           /\ result.gemini_verified
           /\ BaseAssessmentReturned

\* an analysis without an acceptable factor came back
C28_Witness ==
    /\ ReturnedScored
    /\ AnalysisReturned
    /\ AnalyzeReturn(GenerateReturn(received[1])).additional_context = << >>
    /\ result.gemini_verified
    /\ result.gemini_analysis # JNull
    /\ result.signals_detected = Len(signals)

====
